---- MODULE Spec2Model ----
(***************************************************************************)
(* Model of archery-timer (src/src/main.rs): the Timer stopwatch, the      *)
(* ApplicationState shared behind one Mutex, and the ButtonTracker         *)
(* debounce / hold-to-reset state machine driven by the track_gpio loop.   *)
(* Time is the monotonic tokio clock in milliseconds.                      *)
(***************************************************************************)
EXTENDS Integers, Sequences, FiniteSets, TLC

VARIABLES
    now,             \* Instant::now(), ms since process start
    config,          \* Config: button_toggle and the two music_file options
    app,             \* ApplicationState behind Arc<Mutex<..>>
    button_tracker,  \* the ButtonTracker owned by track_gpio
    trace,           \* history: events processed and commands issued by the tracker
    lastCall,        \* history: last method called on ApplicationState
    callSeq,         \* history: parity of the number of ApplicationState calls
    keys,            \* history: number of key presses handled
    updates,         \* history: number of level changes the tracker has stored
    both_since,      \* history: instant since which both levels read true, or None
    owed,            \* history: lanes pressed alone and not yet started
    left_label,      \* text of the left gtk::Label, one character per element
    right_label,     \* text of the right gtk::Label
    dup              \* history: the last step was an update with the stored level

vars == <<now, config, app, button_tracker, trace, lastCall, callSeq, keys,
          updates, both_since, owed, left_label, right_label, dup>>

----------------------------------------------------------------------------
(* Bounds of the model *)
MaxTime == 3100
MaxInputs == 5
Delta == 15
MaxSeconds == 6100

(* Program constants *)
TICK_MS == 25
RESET_MS == 3000

(* Option::None for Instants, deadlines and paths *)
None == -1
NoFile == ""
Sides == {"Left", "Right"}

----------------------------------------------------------------------------
(* Timer *)
Timer_new == [start_time |-> None, offset |-> 0]

Timer_is_running(t) == t.start_time # None

(* Timer::start without the early return: a running timer is restarted *)
Timer_start_restarts(t, clock) == [t EXCEPT !.start_time = clock]

Timer_start(t, clock) ==
    IF t.start_time # None THEN t
    ELSE [t EXCEPT !.start_time = clock]

(* Timer::stop without `self.offset += elapsed` *)
Timer_stop_drops_elapsed(t, clock) ==
    IF t.start_time = None THEN t
    ELSE [start_time |-> None, offset |-> t.offset]

Timer_stop(t, clock) ==
    IF t.start_time = None THEN t
    ELSE [start_time |-> None, offset |-> t.offset + (clock - t.start_time)]

(* Timer::clear without `self.offset = Duration::from_secs(0)` *)
Timer_clear_keeps_offset(t) == [t EXCEPT !.start_time = None]

Timer_clear(t) == [start_time |-> None, offset |-> 0]

Timer_get_duration(t, clock) ==
    IF t.start_time # None THEN t.offset + (clock - t.start_time)
    ELSE t.offset

----------------------------------------------------------------------------
(* AudioController: running_player is None or the Sink looping one file,   *)
(* created at instant `since`.                                             *)
NoPlayer == [file |-> NoFile, since |-> None]

AudioController_play_file(player, file_path, clock) ==
    [file |-> file_path, since |-> clock]

AudioController_stop(player) == NoPlayer

----------------------------------------------------------------------------
(* ApplicationState *)
ApplicationState_new ==
    [left_timer |-> Timer_new, right_timer |-> Timer_new, running_player |-> NoPlayer]

clear_timers(s) ==
    [left_timer     |-> Timer_clear(s.left_timer),
     right_timer    |-> Timer_clear(s.right_timer),
     running_player |-> AudioController_stop(s.running_player)]

(* start_left_timer without `self.right_timer.stop()` *)
start_left_timer_keeps_right(s, cfg, clock) ==
    IF Timer_is_running(s.left_timer) /\ cfg.button_toggle
    THEN [s EXCEPT !.left_timer = Timer_stop(@, clock)]
    ELSE [left_timer     |-> Timer_start(s.left_timer, clock),
          right_timer    |-> s.right_timer,
          running_player |-> IF cfg.left_music # NoFile
                             THEN AudioController_play_file(s.running_player, cfg.left_music, clock)
                             ELSE s.running_player]

start_left_timer(s, cfg, clock) ==
    IF Timer_is_running(s.left_timer) /\ cfg.button_toggle
    THEN [s EXCEPT !.left_timer = Timer_stop(@, clock)]
    ELSE [left_timer     |-> Timer_start(s.left_timer, clock),
          right_timer    |-> Timer_stop(s.right_timer, clock),
          running_player |-> IF cfg.left_music # NoFile
                             THEN AudioController_play_file(s.running_player, cfg.left_music, clock)
                             ELSE s.running_player]

(* start_right_timer that returns early when the lane is already running *)
start_right_timer_no_retrigger(s, cfg, clock) ==
    IF Timer_is_running(s.right_timer)
    THEN (IF cfg.button_toggle THEN [s EXCEPT !.right_timer = Timer_stop(@, clock)] ELSE s)
    ELSE [left_timer     |-> Timer_stop(s.left_timer, clock),
          right_timer    |-> Timer_start(s.right_timer, clock),
          running_player |-> IF cfg.right_music # NoFile
                             THEN AudioController_play_file(s.running_player, cfg.right_music, clock)
                             ELSE s.running_player]

(* start_right_timer without the play_file call *)
start_right_timer_silent(s, cfg, clock) ==
    IF Timer_is_running(s.right_timer) /\ cfg.button_toggle
    THEN [s EXCEPT !.right_timer = Timer_stop(@, clock)]
    ELSE [left_timer     |-> Timer_stop(s.left_timer, clock),
          right_timer    |-> Timer_start(s.right_timer, clock),
          running_player |-> s.running_player]

start_right_timer(s, cfg, clock) ==
    IF Timer_is_running(s.right_timer) /\ cfg.button_toggle
    THEN [s EXCEPT !.right_timer = Timer_stop(@, clock)]
    ELSE [left_timer     |-> Timer_stop(s.left_timer, clock),
          right_timer    |-> Timer_start(s.right_timer, clock),
          running_player |-> IF cfg.right_music # NoFile
                             THEN AudioController_play_file(s.running_player, cfg.right_music, clock)
                             ELSE s.running_player]

(* One locked call on the shared ApplicationState *)
Call(name) ==
    /\ app' = CASE name = "left"  -> start_left_timer(app, config, now)
                [] name = "right" -> start_right_timer(app, config, now)
                [] name = "clear" -> clear_timers(app)
    /\ lastCall' = name
    /\ callSeq' = 1 - callSeq

NoCall == UNCHANGED <<app, lastCall, callSeq>>

----------------------------------------------------------------------------
(* History helpers *)
UpdateEntries == {"L+", "L-", "R+", "R-"}
CmdEntries == {"left", "right", "clear"}

RECURSIVE Filter(_, _)
Filter(s, S) ==
    IF s = <<>> THEN <<>>
    ELSE (IF Head(s) \in S THEN <<Head(s)>> ELSE <<>>) \o Filter(Tail(s), S)

Cmds == Filter(trace, CmdEntries)

----------------------------------------------------------------------------
(* ButtonTracker *)
ButtonTracker_new ==
    [left_state |-> FALSE, right_state |-> FALSE, tick_timeout |-> None,
     reset_timeout |-> None, reset_debounce |-> FALSE]

(* ButtonTracker::update without re-arming tick_timeout *)
update_no_arm(bt, side, state, clock) ==
    IF side = "Left" THEN [bt EXCEPT !.left_state = state]
                     ELSE [bt EXCEPT !.right_state = state]

(* ButtonTracker::update without the `if *existing_state == state { return; }` *)
update_no_dedup(bt, side, state, clock) ==
    IF side = "Left"
    THEN [bt EXCEPT !.left_state = state, !.tick_timeout = clock + TICK_MS]
    ELSE [bt EXCEPT !.right_state = state, !.tick_timeout = clock + TICK_MS]

(* ButtonTracker::update that also drops reset_timeout on a level change *)
update_clears_reset(bt, side, state, clock) ==
    LET existing_state == IF side = "Left" THEN bt.left_state ELSE bt.right_state IN
    IF existing_state = state THEN bt
    ELSE IF side = "Left"
         THEN [bt EXCEPT !.left_state = state, !.tick_timeout = clock + TICK_MS,
                         !.reset_timeout = None]
         ELSE [bt EXCEPT !.right_state = state, !.tick_timeout = clock + TICK_MS,
                         !.reset_timeout = None]

(* ButtonTracker::update at instant clock *)
update(bt, side, state, clock) ==
    LET existing_state == IF side = "Left" THEN bt.left_state ELSE bt.right_state IN
    IF existing_state = state THEN bt
    ELSE IF side = "Left"
         THEN [bt EXCEPT !.left_state = state, !.tick_timeout = clock + TICK_MS]
         ELSE [bt EXCEPT !.right_state = state, !.tick_timeout = clock + TICK_MS]

(* timeout_update whose ResetTimeout arm forgets clear_timers *)
timeout_update_no_clear(bt, event, clock) ==
    IF event = "TickTimeout"
    THEN CASE bt.left_state /\ bt.right_state /\ ~bt.reset_debounce ->
                [tracker |-> [bt EXCEPT !.reset_timeout = clock + RESET_MS], call |-> "none"]
           [] bt.left_state /\ ~bt.right_state /\ ~bt.reset_debounce ->
                [tracker |-> [bt EXCEPT !.reset_timeout = None], call |-> "left"]
           [] ~bt.left_state /\ bt.right_state /\ ~bt.reset_debounce ->
                [tracker |-> [bt EXCEPT !.reset_timeout = None], call |-> "right"]
           [] ~bt.left_state /\ ~bt.right_state ->
                [tracker |-> [bt EXCEPT !.reset_debounce = FALSE], call |-> "none"]
           [] OTHER ->
                [tracker |-> bt, call |-> "none"]
    ELSE [tracker |-> [bt EXCEPT !.reset_debounce = TRUE], call |-> "none"]

(* timeout_update whose ResetTimeout arm forgets to set reset_debounce *)
timeout_update_no_latch(bt, event, clock) ==
    IF event = "TickTimeout"
    THEN CASE bt.left_state /\ bt.right_state /\ ~bt.reset_debounce ->
                [tracker |-> [bt EXCEPT !.reset_timeout = clock + RESET_MS], call |-> "none"]
           [] bt.left_state /\ ~bt.right_state /\ ~bt.reset_debounce ->
                [tracker |-> [bt EXCEPT !.reset_timeout = None], call |-> "left"]
           [] ~bt.left_state /\ bt.right_state /\ ~bt.reset_debounce ->
                [tracker |-> [bt EXCEPT !.reset_timeout = None], call |-> "right"]
           [] ~bt.left_state /\ ~bt.right_state ->
                [tracker |-> [bt EXCEPT !.reset_debounce = FALSE], call |-> "none"]
           [] OTHER ->
                [tracker |-> bt, call |-> "none"]
    ELSE [tracker |-> bt, call |-> "clear"]

(* timeout_update whose single-lane arms lack the `if !self.reset_debounce` guard *)
timeout_update_unguarded(bt, event, clock) ==
    IF event = "TickTimeout"
    THEN CASE bt.left_state /\ bt.right_state /\ ~bt.reset_debounce ->
                [tracker |-> [bt EXCEPT !.reset_timeout = clock + RESET_MS], call |-> "none"]
           [] bt.left_state /\ ~bt.right_state ->
                [tracker |-> [bt EXCEPT !.reset_timeout = None], call |-> "left"]
           [] ~bt.left_state /\ bt.right_state ->
                [tracker |-> [bt EXCEPT !.reset_timeout = None], call |-> "right"]
           [] ~bt.left_state /\ ~bt.right_state ->
                [tracker |-> [bt EXCEPT !.reset_debounce = FALSE], call |-> "none"]
           [] OTHER ->
                [tracker |-> bt, call |-> "none"]
    ELSE [tracker |-> [bt EXCEPT !.reset_debounce = TRUE], call |-> "clear"]

(* timeout_update whose (true, true) arm lacks the `if !self.reset_debounce` guard *)
timeout_update_arms_latched(bt, event, clock) ==
    IF event = "TickTimeout"
    THEN CASE bt.left_state /\ bt.right_state ->
                [tracker |-> [bt EXCEPT !.reset_timeout = clock + RESET_MS], call |-> "none"]
           [] bt.left_state /\ ~bt.right_state /\ ~bt.reset_debounce ->
                [tracker |-> [bt EXCEPT !.reset_timeout = None], call |-> "left"]
           [] ~bt.left_state /\ bt.right_state /\ ~bt.reset_debounce ->
                [tracker |-> [bt EXCEPT !.reset_timeout = None], call |-> "right"]
           [] ~bt.left_state /\ ~bt.right_state ->
                [tracker |-> [bt EXCEPT !.reset_debounce = FALSE], call |-> "none"]
           [] OTHER ->
                [tracker |-> bt, call |-> "none"]
    ELSE [tracker |-> [bt EXCEPT !.reset_debounce = TRUE], call |-> "clear"]

(* ButtonTracker::timeout_update at instant clock: the tracker afterwards   *)
(* and the ApplicationState method it called under the lock ("none" if no  *)
(* call was made).                                                         *)
timeout_update(bt, event, clock) ==
    IF event = "TickTimeout"
    THEN CASE bt.left_state /\ bt.right_state /\ ~bt.reset_debounce ->
                [tracker |-> [bt EXCEPT !.reset_timeout = clock + RESET_MS], call |-> "none"]
           [] bt.left_state /\ ~bt.right_state /\ ~bt.reset_debounce ->
                [tracker |-> [bt EXCEPT !.reset_timeout = None], call |-> "left"]
           [] ~bt.left_state /\ bt.right_state /\ ~bt.reset_debounce ->
                [tracker |-> [bt EXCEPT !.reset_timeout = None], call |-> "right"]
           [] ~bt.left_state /\ ~bt.right_state ->
                [tracker |-> [bt EXCEPT !.reset_debounce = FALSE], call |-> "none"]
           [] OTHER ->
                [tracker |-> bt, call |-> "none"]
    ELSE [tracker |-> [bt EXCEPT !.reset_debounce = TRUE], call |-> "clear"]

(* get_timeout resolving on an armed Sleep before its deadline *)
get_timeout_early(bt, clock) ==
    {e \in {"TickTimeout", "ResetTimeout"} :
        (IF e = "TickTimeout" THEN bt.tick_timeout ELSE bt.reset_timeout) # None}

(* ButtonTracker::get_timeout: the events whose Sleep has completed *)
get_timeout(bt, clock) ==
    {e \in {"TickTimeout", "ResetTimeout"} :
        LET slot == IF e = "TickTimeout" THEN bt.tick_timeout ELSE bt.reset_timeout
        IN  slot # None /\ clock >= slot}

----------------------------------------------------------------------------
(* The display: gtk::Label texts and format_timestamp *)
LeftLabelNew == <<"T", "e", "s", "t", " ", "l", "e", "f", "t">>
RightLabelNew == <<"T", "e", "s", "t", " ", "r", "i", "g", "h", "t">>

DigitChar == <<"0", "1", "2", "3", "4", "5", "6", "7", "8", "9">>

(* Display of an unsigned integer in decimal *)
RECURSIVE Decimal(_)
Decimal(n) ==
    IF n < 10 THEN <<DigitChar[n + 1]>>
    ELSE Decimal(n \div 10) \o <<DigitChar[(n % 10) + 1]>>

(* the {:02} format: zero-padded to a minimum width of 2 *)
Pad02(n) == IF Len(Decimal(n)) < 2 THEN <<"0">> \o Decimal(n) ELSE Decimal(n)

(* format_timestamp with `let m = timestamp_m % 60` *)
format_timestamp_wraps(timestamp_ms) ==
    LET timestamp_s == timestamp_ms \div 1000
        s == timestamp_s % 60
        timestamp_m == timestamp_s \div 60
        m == timestamp_m % 60
    IN  Pad02(m) \o <<":">> \o Pad02(s)

format_timestamp(timestamp_ms) ==
    LET timestamp_s == timestamp_ms \div 1000
        s == timestamp_s % 60
        timestamp_m == timestamp_s \div 60
        m == timestamp_m
    IN  Pad02(m) \o <<":">> \o Pad02(s)

Init ==
    /\ now = 0
    /\ config \in [button_toggle : BOOLEAN,
                   left_music : {NoFile, "left.ogg"},
                   right_music : {NoFile, "right.ogg"}]
    /\ app = ApplicationState_new
    /\ button_tracker = ButtonTracker_new
    /\ trace = <<>>
    /\ lastCall = "none"
    /\ callSeq = 0
    /\ keys = 0
    /\ updates = 0
    /\ both_since = None
    /\ owed = {}
    /\ left_label = LeftLabelNew
    /\ right_label = RightLabelNew
    /\ dup = FALSE

(* track_gpio: a line event arrives and is passed to ButtonTracker::update *)
LineEvent(side, state) ==
    LET bt == update(button_tracker, side, state, now)
        stored == IF side = "Left" THEN button_tracker.left_state
                                   ELSE button_tracker.right_state
    IN
    /\ button_tracker' = bt
    /\ dup' = (state = stored)
    /\ IF state = stored
       THEN UNCHANGED <<trace, updates>>
       ELSE /\ updates + keys < MaxInputs
            /\ updates' = updates + 1
            /\ trace' = Append(trace, (IF side = "Left" THEN "L" ELSE "R")
                                       \o (IF state THEN "+" ELSE "-"))
    /\ both_since' = IF bt.left_state /\ bt.right_state
                     THEN (IF both_since = None THEN now ELSE both_since)
                     ELSE None
    /\ owed' = IF /\ state # stored
                  /\ state
                  /\ ~(IF side = "Left" THEN button_tracker.right_state
                                        ELSE button_tracker.left_state)
                  /\ ~button_tracker.reset_debounce
                  /\ button_tracker.reset_timeout = None
               THEN owed \cup {side}
               ELSE owed
    /\ NoCall
    /\ UNCHANGED <<now, config, keys, left_label, right_label>>

(* track_gpio: get_timeout resolves and the event goes to timeout_update *)
Timeout(event) ==
    /\ event \in get_timeout(button_tracker, now)
    /\ LET fired == IF event = "TickTimeout"
                    THEN [button_tracker EXCEPT !.tick_timeout = None]
                    ELSE [button_tracker EXCEPT !.reset_timeout = None]
           r == timeout_update(fired, event, now)
       IN  /\ button_tracker' = r.tracker
           /\ IF r.call = "none"
              THEN /\ NoCall
                   /\ trace' = Append(trace, IF event = "TickTimeout" THEN "tick" ELSE "reset")
              ELSE /\ Call(r.call)
                   /\ trace' = trace \o <<IF event = "TickTimeout" THEN "tick" ELSE "reset", r.call>>
           /\ owed' = owed \ (CASE r.call = "left" -> {"Left"}
                                [] r.call = "right" -> {"Right"}
                                [] OTHER -> {})
    /\ dup' = FALSE
    /\ UNCHANGED <<now, config, keys, updates, both_since, left_label, right_label>>

TickTimeout == Timeout("TickTimeout")
ResetTimeout == Timeout("ResetTimeout")

(* key press handler of activate: r / j / k *)
KeyPress(key) ==
    /\ updates + keys < MaxInputs
    /\ keys' = keys + 1
    /\ Call(CASE key = "r" -> "clear" [] key = "j" -> "left" [] key = "k" -> "right")
    /\ dup' = FALSE
    /\ UNCHANGED <<now, config, button_tracker, trace, updates, both_since, owed,
                   left_label, right_label>>

(* Earliest deadline the track_gpio loop sleeps on *)
Armed == {d \in {button_tracker.tick_timeout, button_tracker.reset_timeout} : d # None}
NextDeadline ==
    IF Armed = {} THEN MaxTime
    ELSE CHOOSE d \in Armed : \A e \in Armed : d <= e

(* The clock advances inside a debounce window: a raw edge may arrive Delta *)
(* ms after the previous one, before the tick deadline.                    *)
AdvanceInWindow ==
    /\ button_tracker.tick_timeout # None
    /\ now + Delta < NextDeadline
    /\ now + Delta <= MaxTime
    /\ now' = now + Delta
    /\ dup' = FALSE
    /\ UNCHANGED <<config, app, button_tracker, trace, lastCall, callSeq, keys,
                   updates, both_since, owed, left_label, right_label>>

(* The clock advances to the earliest deadline the loop sleeps on *)
AdvanceToDeadline ==
    /\ Armed # {}
    /\ now < NextDeadline
    /\ NextDeadline <= MaxTime
    /\ now' = NextDeadline
    /\ dup' = FALSE
    /\ UNCHANGED <<config, app, button_tracker, trace, lastCall, callSeq, keys,
                   updates, both_since, owed, left_label, right_label>>

(* The whole program: the track_gpio loop and the key handlers share the   *)
(* ApplicationState; the clock is observed at the loop's deadlines.        *)
(* the 100 ms glib timeout of activate: try_lock succeeds between          *)
(* handlers, both durations are read and both labels set                   *)
Refresh ==
    /\ left_label' = format_timestamp(Timer_get_duration(app.left_timer, now))
    /\ right_label' = format_timestamp(Timer_get_duration(app.right_timer, now))
    /\ dup' = FALSE
    /\ UNCHANGED <<now, config, app, button_tracker, trace, lastCall, callSeq, keys,
                   updates, both_since, owed>>

Next ==
    \/ \E side \in Sides, state \in BOOLEAN : LineEvent(side, state)
    \/ TickTimeout
    \/ ResetTimeout
    \/ \E key \in {"r", "j", "k"} : KeyPress(key)
    \/ AdvanceToDeadline

Spec == Init /\ [][Next]_vars

(* The track_gpio loop alone, the keyboard idle, with raw edges also       *)
(* arriving inside a debounce window. The ButtonTracker never reads the    *)
(* Config, so one configuration stands for all.                            *)
TrackerInit ==
    /\ Init
    /\ config = [button_toggle |-> FALSE, left_music |-> "left.ogg",
                 right_music |-> "right.ogg"]

TrackerNext ==
    \/ \E side \in Sides, state \in BOOLEAN : LineEvent(side, state)
    \/ TickTimeout
    \/ ResetTimeout
    \/ AdvanceInWindow
    \/ AdvanceToDeadline

TrackerSpec == TrackerInit /\ [][TrackerNext]_vars

----------------------------------------------------------------------------
(* Reading the history *)
Changes == Filter(trace, UpdateEntries)
Count(e) == Len(Filter(trace, {e}))
Quiescent ==
    button_tracker.tick_timeout = None /\ button_tracker.reset_timeout = None
IsLast(e) == trace # <<>> /\ trace[Len(trace)] = e

(* The step just taken processed this timeout event *)
Processed(e) == Len(trace') > Len(trace) /\ trace'[Len(trace) + 1] = e
(* The step just taken called a method of ApplicationState *)
Called(name) == callSeq' # callSeq /\ lastCall' = name

TypeOK ==
    /\ now \in 0..MaxTime
    /\ button_tracker.left_state \in BOOLEAN
    /\ callSeq \in {0, 1}
    /\ keys \in 0..MaxInputs
    /\ updates \in 0..MaxInputs

----------------------------------------------------------------------------
(* C1: the left and right Timer are never both running, whichever of the   *)
(* debounce loop and the key handlers issued the commands; after           *)
(* start_left_timer the right timer is not running and after               *)
(* start_right_timer the left timer is not running.                        *)
C1_NeverBothRunning ==
    /\ ~(Timer_is_running(app.left_timer) /\ Timer_is_running(app.right_timer))
    /\ lastCall = "left" => ~Timer_is_running(app.right_timer)
    /\ lastCall = "right" => ~Timer_is_running(app.left_timer)

(* a key handler started the right lane after the tracker had started the  *)
(* left lane, which had to be stopped                                      *)
C1_Witness ==
    /\ keys = 1
    /\ Count("left") = 1
    /\ lastCall = "right"
    /\ Timer_is_running(app.right_timer)
    /\ app.left_timer.offset > 0

----------------------------------------------------------------------------
(* Both buttons pressed from the initial state, and no other level change *)
BothPressedOnly == Changes \in {<<"L+", "R+">>, <<"R+", "L+">>}

(* C2 as claimed: once both presses have played out (no deadline left      *)
(* armed), exactly one clear_timers and no start command were issued,      *)
(* whatever the delay between the two presses.                             *)
C2_AnyDelay ==
    (BothPressedOnly /\ Quiescent) => Filter(trace, CmdEntries) = <<"clear">>

(* C2 amended: the gesture issues exactly one clear_timers; no start       *)
(* command when the second press arrives before the tick armed by the      *)
(* first has fired, and otherwise exactly one start, of the lane pressed   *)
(* first, issued before the reset.                                         *)
C2_ResetGesture ==
    BothPressedOnly =>
        LET first == IF trace[1] = "L+" THEN "left" ELSE "right"
            starts == IF trace[2] = "tick" THEN <<first>> ELSE <<>>
        IN  /\ Cmds \in {starts, starts \o <<"clear">>}
            /\ Quiescent => Cmds = starts \o <<"clear">>

C2_Witness ==
    BothPressedOnly /\ Quiescent /\ Cmds = <<"clear">> /\ button_tracker.reset_debounce

----------------------------------------------------------------------------
(* C3: whenever a ResetTimeout is processed, both levels have read true    *)
(* without interruption for the whole hold window before it.               *)
C3_ResetOnlyAfterHold ==
    [][Processed("reset") =>
          /\ button_tracker.left_state /\ button_tracker.right_state
          /\ both_since # None
          /\ now - both_since >= RESET_MS]_vars

----------------------------------------------------------------------------
(* C4: a press of one lane alone (other lane released, latch clear, no     *)
(* reset armed) is never dropped: once the tracker has come to rest with   *)
(* no deadline armed, every such press has been answered by a start        *)
(* command for its lane, however soon the release followed.                *)
C4_NoDroppedPress == Quiescent => owed = {}

----------------------------------------------------------------------------
(* Positions of the history *)
Pos == 1..Len(trace)
IsChange(i) == trace[i] \in UpdateEntries
Lane(i) == IF trace[i] \in {"L+", "L-"} THEN "Left" ELSE "Right"
(* i..k is a run of changes of one lane, each arriving before the tick     *)
(* armed by the previous one has fired                                     *)
Burst(i, k) ==
    /\ i <= k /\ IsChange(i) /\ IsChange(k) /\ Lane(i) = Lane(k)
    /\ \A j \in Pos : (i < j /\ j < k) =>
          /\ trace[j] # "tick"
          /\ IsChange(j) => Lane(j) = Lane(i)
(* First change after position k, or the end of the history *)
NextChange(k) ==
    IF \E m \in Pos : m > k /\ IsChange(m)
    THEN CHOOSE m \in Pos : m > k /\ IsChange(m) /\ \A n \in Pos : (n > k /\ IsChange(n)) => m <= n
    ELSE Len(trace) + 1
CmdsIn(lo, hi, S) == Cardinality({j \in Pos : lo < j /\ j < hi /\ trace[j] \in S})

----------------------------------------------------------------------------
(* C6: while reset_debounce is set the tracker issues no command and the   *)
(* latch stays set, until a TickTimeout is processed with both levels      *)
(* false; the latch is set only by a ResetTimeout and cleared only by such *)
(* a TickTimeout.                                                          *)
TickBothReleased ==
    /\ Processed("tick")
    /\ ~button_tracker.left_state /\ ~button_tracker.right_state

C6_LatchHolds ==
    [][/\ (button_tracker.reset_debounce /\ ~TickBothReleased) =>
             /\ button_tracker'.reset_debounce
             /\ Cmds' = Cmds
       /\ (~button_tracker.reset_debounce /\ button_tracker'.reset_debounce) =>
             Processed("reset")
       /\ (button_tracker.reset_debounce /\ ~button_tracker'.reset_debounce) =>
             TickBothReleased]_vars

(* after a reset, left was released first and its tick has been processed  *)
(* with right still held                                                   *)
C6_Witness ==
    /\ button_tracker.reset_debounce
    /\ ~button_tracker.left_state /\ button_tracker.right_state
    /\ IsLast("tick")
    /\ Count("reset") = 1

----------------------------------------------------------------------------
(* C7: one press of one lane from the initial state, with no other level   *)
(* change, issues no command before the tick fires and exactly one start   *)
(* of that lane, and nothing else, from then on.                           *)
C7_SinglePress ==
    /\ Changes = <<"L+">> =>
          Cmds = IF button_tracker.tick_timeout = None THEN <<"left">> ELSE <<>>
    /\ Changes = <<"R+">> =>
          Cmds = IF button_tracker.tick_timeout = None THEN <<"right">> ELSE <<>>

C7_Witness == trace = <<"L+", "tick", "left">> /\ Timer_is_running(app.left_timer)

----------------------------------------------------------------------------
(* C8: both lanes pressed from the initial state before any tick fires:    *)
(* the tick arms the reset timer for the hold window and issues no start;  *)
(* with no further level change the reset then issues exactly one          *)
(* clear_timers and still no start.                                        *)
BothInOneWindow ==
    /\ BothPressedOnly
    /\ trace[2] \in {"L+", "R+"}

C8_BothInOneWindow ==
    BothInOneWindow =>
        \/ /\ Len(trace) = 2
           /\ button_tracker.tick_timeout # None
           /\ button_tracker.reset_timeout = None
        \/ /\ Len(trace) = 3 /\ trace[3] = "tick"
           /\ button_tracker.tick_timeout = None
           /\ button_tracker.reset_timeout # None
           /\ button_tracker.reset_timeout >= both_since + TICK_MS + RESET_MS
        \/ /\ Len(trace) = 5
           /\ <<trace[3], trace[4], trace[5]>> = <<"tick", "reset", "clear">>
           /\ Quiescent
           /\ now - both_since >= RESET_MS

C8_Witness ==
    /\ BothInOneWindow
    /\ IsLast("clear")
    /\ ~Timer_is_running(app.left_timer) /\ ~Timer_is_running(app.right_timer)

----------------------------------------------------------------------------
----------------------------------------------------------------------------
(* C10: without button_toggle, start_left_timer on a running left timer    *)
(* leaves its start_time and offset as they were and the right timer not   *)
(* running; the same for start_right_timer.                                *)
C10_StartIdempotent ==
    [][/\ (~config.button_toggle /\ Called("left")
           /\ Timer_is_running(app.left_timer)) =>
             /\ app'.left_timer = app.left_timer
             /\ ~Timer_is_running(app'.right_timer)
       /\ (~config.button_toggle /\ Called("right")
           /\ Timer_is_running(app.right_timer)) =>
             /\ app'.right_timer = app.right_timer
             /\ ~Timer_is_running(app'.left_timer)]_vars

(* the left timer runs since an earlier instant than the one at which the  *)
(* last start_left_timer replayed its cue                                  *)
C10_Witness ==
    /\ ~config.button_toggle
    /\ lastCall = "left"
    /\ Timer_is_running(app.left_timer)
    /\ app.running_player.file = "left.ogg"
    /\ app.running_player.since > app.left_timer.start_time
    /\ Timer_get_duration(app.left_timer, now) > 0

----------------------------------------------------------------------------
(* C11: between calls get_duration of a running Timer never decreases as   *)
(* the clock advances and that of a stopped Timer does not change; a call  *)
(* of start_left_timer or start_right_timer (Timer::start and Timer::stop) *)
(* leaves get_duration of both Timers as it is at that instant; after      *)
(* clear_timers (Timer::clear) both read 0 and are not running.            *)
ClockStep(t, u) ==
    IF Timer_is_running(t)
    THEN Timer_get_duration(u, now') >= Timer_get_duration(t, now)
    ELSE Timer_get_duration(u, now') = Timer_get_duration(t, now)

C11_Duration ==
    [][/\ (now' # now) =>
             /\ ClockStep(app.left_timer, app'.left_timer)
             /\ ClockStep(app.right_timer, app'.right_timer)
       /\ (Called("left") \/ Called("right")) =>
             /\ Timer_get_duration(app'.left_timer, now)
                    = Timer_get_duration(app.left_timer, now)
             /\ Timer_get_duration(app'.right_timer, now)
                    = Timer_get_duration(app.right_timer, now)
       /\ Called("clear") =>
             /\ Timer_get_duration(app'.left_timer, now) = 0
             /\ Timer_get_duration(app'.right_timer, now) = 0
             /\ ~Timer_is_running(app'.left_timer)
             /\ ~Timer_is_running(app'.right_timer)]_vars

(* a Timer stopped with time on it was started again and has run on, the   *)
(* other one was stopped with time on it                                   *)
C11_Witness ==
    /\ Timer_is_running(app.left_timer)
    /\ app.left_timer.offset > 0
    /\ now > app.left_timer.start_time
    /\ app.right_timer.offset > 0

----------------------------------------------------------------------------
(* The display alone: both Timers stopped with some time on them, as left  *)
(* by start_*_timer followed by the other lane's start, and the refresh    *)
(* timeout showing them.                                                   *)
Fractions == {0, 999}
Durations == {1000 * sec + f : sec \in 0..MaxSeconds, f \in Fractions}

FormatInit ==
    /\ now = 0
    /\ config = [button_toggle |-> FALSE, left_music |-> NoFile, right_music |-> NoFile]
    /\ \E l \in Durations, r \in {0, 59999} :
          app = [ApplicationState_new EXCEPT !.left_timer.offset = l,
                                             !.right_timer.offset = r]
    /\ button_tracker = ButtonTracker_new
    /\ trace = <<>>
    /\ lastCall = "none"
    /\ callSeq = 0
    /\ keys = 0
    /\ updates = 0
    /\ both_since = None
    /\ owed = {}
    /\ left_label = LeftLabelNew
    /\ right_label = RightLabelNew
    /\ dup = FALSE
FormatNext == Refresh
FormatSpec == FormatInit /\ [][FormatNext]_vars

(* Reading a label back *)
DigitValue(c) == CHOOSE d \in 0..9 : DigitChar[d + 1] = c
IsDigits(t) == \A i \in 1..Len(t) : \E d \in 0..9 : DigitChar[d + 1] = t[i]
RECURSIVE Value(_)
Value(t) ==
    IF Len(t) = 0 THEN 0
    ELSE 10 * Value(SubSeq(t, 1, Len(t) - 1)) + DigitValue(t[Len(t)])

Shows(label, ms) ==
    LET mm == SubSeq(label, 1, Len(label) - 3)
        ss == SubSeq(label, Len(label) - 1, Len(label))
    IN  /\ Len(label) >= 5
        /\ label[Len(label) - 2] = ":"
        /\ IsDigits(mm) /\ IsDigits(ss)
        /\ Value(mm) = ms \div 60000
        /\ Len(mm) = 2 \/ (Len(mm) > 2 /\ mm[1] # "0")
        /\ Value(ss) = (ms \div 1000) % 60
        /\ Value(ss) \in 0..59

(* C12: once the refresh has run, each label reads MM:SS with              *)
(* MM = floor(ms / 60000), never wrapped at 60, at least two digits, and   *)
(* SS = floor(ms / 1000) mod 60 in exactly two digits, ms being the        *)
(* Timer's get_duration; 125000 ms reads 02:05 and 59999 ms reads 00:59.   *)
C12_Format ==
    LET l == Timer_get_duration(app.left_timer, now)
        r == Timer_get_duration(app.right_timer, now)
    IN  /\ left_label # LeftLabelNew => Shows(left_label, l)
        /\ right_label # RightLabelNew => Shows(right_label, r)
        /\ (left_label # LeftLabelNew /\ l = 125000)
              => left_label = <<"0", "2", ":", "0", "5">>
        /\ (right_label # RightLabelNew /\ r = 59999)
              => right_label = <<"0", "0", ":", "5", "9">>

(* a duration of an hour or more is on display, next to 59999 ms *)
C12_Witness ==
    /\ left_label # LeftLabelNew
    /\ Timer_get_duration(app.left_timer, now) >= 3600000
    /\ Len(left_label) > 5
    /\ right_label = <<"0", "0", ":", "5", "9">>

----------------------------------------------------------------------------
(* C16: an update whose level equals the stored one leaves the whole       *)
(* ButtonTracker as it is (levels, tick deadline, reset deadline, latch),  *)
(* issues no command and leaves ApplicationState alone; applying the same  *)
(* update twice gives the tracker that applying it once gives.             *)
C16_DuplicateIgnored ==
    [][/\ dup' => /\ button_tracker' = button_tracker
                  /\ trace' = trace
                  /\ app' = app
                  /\ callSeq' = callSeq
       /\ \A side \in Sides, state \in BOOLEAN :
             update(update(button_tracker, side, state, now), side, state, now)
                 = update(button_tracker, side, state, now)]_vars

(* a duplicate arrived in the middle of a debounce window with the reset   *)
(* armed: the tick keeps the deadline of the change before it              *)
C16_Witness ==
    /\ dup
    /\ button_tracker.tick_timeout # None
    /\ button_tracker.tick_timeout < now + TICK_MS
    /\ button_tracker.reset_timeout # None

----------------------------------------------------------------------------
(* C13 as claimed: whenever reset_timeout is armed both levels are true    *)
(* and reset_debounce is false.                                            *)
C13_ArmedImpliesBothHeld ==
    button_tracker.reset_timeout # None =>
        /\ button_tracker.left_state
        /\ button_tracker.right_state
        /\ ~button_tracker.reset_debounce

(* C13: reset_timeout is given a deadline only by a TickTimeout processed  *)
(* with both levels true and reset_debounce false, and reset_debounce is   *)
(* false in every state in which reset_timeout is armed; the levels may    *)
(* change while it stays armed.                                            *)
C13_ArmedOnlyWhenBothHeld ==
    [][/\ (button_tracker'.reset_timeout # None
             /\ button_tracker'.reset_timeout # button_tracker.reset_timeout)
          => /\ Processed("tick")
             /\ button_tracker.left_state
             /\ button_tracker.right_state
             /\ ~button_tracker.reset_debounce
             /\ button_tracker'.reset_timeout = now + RESET_MS
       /\ button_tracker.reset_timeout # None => ~button_tracker.reset_debounce
       /\ button_tracker'.reset_timeout # None => ~button_tracker'.reset_debounce]_vars

(* the reset is armed, one button has been released since, the tick for    *)
(* the release is still to come                                            *)
C13_Witness ==
    /\ button_tracker.reset_timeout # None
    /\ button_tracker.left_state
    /\ ~button_tracker.right_state
    /\ button_tracker.tick_timeout # None
    /\ ~dup

----------------------------------------------------------------------------
(* Entries of the history after the last TickTimeout processed *)
LastTick ==
    IF \E i \in Pos : trace[i] = "tick"
    THEN CHOOSE i \in Pos : trace[i] = "tick" /\ \A j \in Pos : trace[j] = "tick" => j <= i
    ELSE 0
SinceLastTick == {trace[i] : i \in (LastTick + 1)..Len(trace)}

(* The reset is armed, and since the tick that armed it one lane has gone  *)
(* down and up again while the other stayed held                           *)
Bounced ==
    /\ button_tracker.reset_timeout # None
    /\ button_tracker.left_state /\ button_tracker.right_state
    /\ LastTick > 0
    /\ SinceLastTick = {"L-", "L+"} \/ SinceLastTick = {"R-", "R+"}

(* C14: the tick that ends a bounce of one lane, the other lane held and   *)
(* the reset armed, leaves the reset deadline where the arming tick put it *)
C14_BounceKeepsDeadline ==
    [][(Bounced /\ Processed("tick"))
          => button_tracker'.reset_timeout = button_tracker.reset_timeout]_vars

----------------------------------------------------------------------------
(* C15: an update that changes a level changes that level and re-arms the  *)
(* tick for now + TICK_MS, whatever the tick slot held; the other level,   *)
(* reset_timeout, reset_debounce and ApplicationState stay as they are and *)
(* no command is issued.  An armed reset_timeout becomes None only when a  *)
(* TickTimeout is processed with exactly one level true and reset_debounce *)
(* false, or when the ResetTimeout itself is processed.                    *)
C15_UpdateFrame ==
    [][/\ \A side \in Sides, state \in BOOLEAN :
            Processed((IF side = "Left" THEN "L" ELSE "R")
                          \o (IF state THEN "+" ELSE "-"))
            => /\ button_tracker' =
                    IF side = "Left"
                    THEN [button_tracker EXCEPT !.left_state = state,
                                                !.tick_timeout = now + TICK_MS]
                    ELSE [button_tracker EXCEPT !.right_state = state,
                                                !.tick_timeout = now + TICK_MS]
               /\ button_tracker' # button_tracker
               /\ Len(trace') = Len(trace) + 1
               /\ app' = app
               /\ callSeq' = callSeq
       /\ (button_tracker.reset_timeout # None /\ button_tracker'.reset_timeout = None)
            => \/ Processed("reset")
               \/ /\ Processed("tick")
                  /\ button_tracker.left_state # button_tracker.right_state
                  /\ ~button_tracker.reset_debounce]_vars

(* a change has just replaced the tick armed by the change before it, with *)
(* the reset armed and a Timer running                                     *)
C15_Witness ==
    /\ Len(trace) >= 2
    /\ trace[Len(trace)] \in UpdateEntries
    /\ trace[Len(trace) - 1] \in UpdateEntries
    /\ button_tracker.tick_timeout = now + TICK_MS
    /\ button_tracker.reset_timeout # None
    /\ Timer_is_running(app.left_timer)
    /\ ~dup

----------------------------------------------------------------------------
(* C17: with a cue configured for both lanes, in every state between two   *)
(* locked calls a running lane's cue is the one playing; a call is never   *)
(* seen half done.                                                         *)
C17_RunningLanePlaysItsCue ==
    (config.left_music # NoFile /\ config.right_music # NoFile) =>
        /\ Timer_is_running(app.left_timer)
              => app.running_player.file = config.left_music
        /\ Timer_is_running(app.right_timer)
              => app.running_player.file = config.right_music

(* the right lane took over from the left one: its cue replaced the left   *)
(* cue and the left Timer keeps its time                                   *)
C17_Witness ==
    /\ config.left_music # NoFile /\ config.right_music # NoFile
    /\ Timer_is_running(app.right_timer)
    /\ app.left_timer.offset > 0
    /\ app.running_player.file = config.right_music
    /\ lastCall = "right"

----------------------------------------------------------------------------
(* C18 as claimed: with button_toggle = false a start of a lane that is    *)
(* already running leaves the playing cue as it was.                       *)
C18_NoRetrigger ==
    [][/\ (~config.button_toggle /\ Called("left") /\ Timer_is_running(app.left_timer))
            => app'.running_player = app.running_player
       /\ (~config.button_toggle /\ Called("right") /\ Timer_is_running(app.right_timer))
            => app'.running_player = app.running_player]_vars

(* C18: with button_toggle = false a start of a lane that is already       *)
(* running calls play_file again when the lane has a cue: the Sink is      *)
(* replaced by a new one playing the lane's cue from its beginning; with   *)
(* no cue configured the player is left as it was.  Both Timers read the   *)
(* same elapsed time before and after.                                     *)
Restarted(file) == [file |-> file, since |-> now]

C18_RepeatedStart ==
    [][/\ (~config.button_toggle /\ Called("left") /\ Timer_is_running(app.left_timer))
            => /\ app'.running_player =
                     IF config.left_music # NoFile THEN Restarted(config.left_music)
                                                   ELSE app.running_player
               /\ app'.left_timer = app.left_timer
               /\ app'.right_timer = app.right_timer
       /\ (~config.button_toggle /\ Called("right") /\ Timer_is_running(app.right_timer))
            => /\ app'.running_player =
                     IF config.right_music # NoFile THEN Restarted(config.right_music)
                                                    ELSE app.running_player
               /\ app'.left_timer = app.left_timer
               /\ app'.right_timer = app.right_timer]_vars

(* the right lane was started again while running: its cue is younger than *)
(* its Timer                                                               *)
C18_Witness ==
    /\ ~config.button_toggle
    /\ lastCall = "right"
    /\ Timer_is_running(app.right_timer)
    /\ app.running_player.file = config.right_music
    /\ app.running_player.since > app.right_timer.start_time

----------------------------------------------------------------------------
(* C19: a cue is playing only if the lane it belongs to is running.        *)
C19_CueOnlyWhileLaneRuns ==
    app.running_player.file # NoFile =>
        \/ /\ app.running_player.file = config.left_music
           /\ Timer_is_running(app.left_timer)
        \/ /\ app.running_player.file = config.right_music
           /\ Timer_is_running(app.right_timer)

----------------------------------------------------------------------------
(* C20: with both levels false and no tick armed, reset_debounce is false  *)
(* and no reset is armed.                                                  *)
C20_AtRest ==
    (/\ ~button_tracker.left_state
     /\ ~button_tracker.right_state
     /\ button_tracker.tick_timeout = None)
        => /\ ~button_tracker.reset_debounce
           /\ button_tracker.reset_timeout = None
====
